---- MODULE Spec2Model ----
(***************************************************************************)
(* Co-evolution population manager of Thesis_Repo.                         *)
(*                                                                         *)
(*   Spec        Stage 1, the vocabulary-alignment loop                    *)
(*               (run_vocab_alignment, select_refactor_target,             *)
(*               compute_pass_rates, Evaluator.evaluate), in both variants *)
(*               the repository holds: src/test ("prolog") and             *)
(*               src/Evo-Logic-LM ("z3").                                  *)
(*   SpecPareto  pareto_selection / build_pareto_front as a function of    *)
(*               its arguments.                                            *)
(*   SpecClassify  Evaluator._run_single_test as a function of its         *)
(*               arguments and of the answer of the Execution Oracle.      *)
(*   SpecEngine  CoCoEvoEngine.run (src/test/coevo_engine.py): the         *)
(*               alignment / reseed loop and the generations.              *)
(*                                                                         *)
(* Python lists are 0-based; the sequences here are 1-based, so index i    *)
(* of the model is index i-1 of the code.                                  *)
(***************************************************************************)
EXTENDS Integers, Sequences, FiniteSets, TLC

VARIABLES
    variant,          \* which evolve.py runs: "prolog" (src/test) or "z3" (src/Evo-Logic-LM)
    solutions,        \* suite_manager.solutions: program ids (records [id, empty] in SpecEngine)
    test_cases,       \* suite_manager.test_cases: sequence of test ids
    max_iters,        \* parameter of run_vocab_alignment
    it,               \* loop variable of run_vocab_alignment
    pc,               \* position in run_vocab_alignment / pareto_selection / run
    result,           \* what the call returned / raised
    logic_matrix,     \* evaluator.logic_matrix (CoCoEvoEngine.logic_matrix in SpecEngine)
    vocab_matrix,     \* evaluator.vocab_matrix
    repair_attempts,  \* local defaultdict(int) of run_vocab_alignment
    last_fixed_iter,  \* local dict of run_vocab_alignment
    catastrophe,      \* head of the module-level deque _catastrophe
    fallbacks,        \* history: the kinds the fallback of select_refactor_target returned
    target,           \* the (kind, idx) select_refactor_target returned last
    eval_passes,      \* number of evaluate_fitness calls of this run
    test_population,  \* list of {idx, conf, disc, fitness} given to pareto_selection
    select_size,      \* argument of pareto_selection
    mode,             \* argument of pareto_selection
    filter_algo,      \* argument of pareto_selection
    selected,         \* what pareto_selection returned
    pop_cap_programs,     \* CoCoEvoEngine.pop_cap_programs
    pop_cap_tests,        \* CoCoEvoEngine.pop_cap_tests
    max_reseed_attempts,  \* CoCoEvoEngine.max_reseed_attempts (run() decrements it)
    max_generations,      \* CoCoEvoEngine.max_generations
    gen,                  \* loop variable of run(); 0 before the first generation
    flag,                 \* local of run(): Stage 1 reported success
    code_population,      \* CoCoEvoEngine.code_population: list of {solution, logic_fitness}
    stage1_passed,        \* history: some run_vocab_alignment call of run() returned True
    reseeds,              \* history: number of _reseed_populations calls
    single_test,          \* one _run_single_test call: its arguments and the oracle's answer
    logic_discrimination, \* tc.logic_discrimination of the tests of the latest evaluation pass
    evaluated,            \* the latest Evaluator.evaluate call: arguments and matrix
    updated,              \* the Synthesis Oracle's answer to the repair of target, "" before it
    canonical             \* canonical_program / canonical_fact (options_block): the text executed

vars == <<variant, solutions, test_cases, max_iters, it, pc, result,
          logic_matrix, logic_discrimination, evaluated, vocab_matrix,
          repair_attempts, last_fixed_iter,
          catastrophe, fallbacks, target, eval_passes,
          test_population, select_size, mode, filter_algo, selected,
          pop_cap_programs, pop_cap_tests, max_reseed_attempts, max_generations,
          gen, flag, code_population, stage1_passed, reseeds, single_test,
          updated, canonical>>

\* what an evaluation pass leaves behind
lastPass == <<logic_matrix, logic_discrimination, evaluated>>

\* the texts of the individuals
texts == <<updated, canonical>>

\* the state of CoCoEvoEngine.run
engineVars == <<pop_cap_programs, pop_cap_tests, max_reseed_attempts, max_generations,
                gen, flag, code_population, stage1_passed, reseeds>>

\* what Stage 1 never touches
paretoVars == <<test_population, select_size, mode, filter_algo, selected, engineVars,
                single_test>>

(***************************************************************************)
(* Bounds of the model                                                     *)
(***************************************************************************)
MaxCells == 2
MaxIters == 5

(***************************************************************************)
(* Program constants                                                       *)
(***************************************************************************)
\* GOOD_THRESHOLD = 0.8, kept as the fraction GoodNum / GoodDen
GoodNum == 8
GoodDen == 10
max_repair_tries == 2
cooldown_iters == 1

Outcomes == {"logic_pass", "logic_error", "vocab_error", "other_error"}
\* Python's None, where a string is expected: falsy like the empty string
None == <<>>
\* no evaluation pass has run
NothingEvaluated ==
    [solutions |-> <<>>, test_cases |-> <<>>, logic_matrix |-> <<>>, calls |-> <<>>]
\* what generate_content may answer to a repair prompt: nothing (None or ""),
\* or a text followed by a newline
Answers == {"", "repaired\n"}
\* canonical_program / canonical_fact is None
NoText == "None"
\* no fallback yet: run holds the kinds returned by the fallbacks of this
\* run_vocab_alignment call, last the kind returned by the latest one of the process
NoFallbacks == [run |-> <<>>, last |-> "none"]
\* no _run_single_test call is under study
NoCall == [program |-> "", fact |-> "", passed |-> TRUE, reason |-> None]
Variants == {"prolog", "z3"}
NoTarget == <<"none", 0>>

(***************************************************************************)
(* Evaluator.evaluate: one oracle outcome per (program, test) pair         *)
(***************************************************************************)
RECURSIVE SumSeq(_)
SumSeq(s) == IF s = <<>> THEN 0 ELSE Head(s) + SumSeq(Tail(s))

LogicCell(res) == IF res = "logic_pass" THEN 1 ELSE 0

\* the opposite convention, 1 = vocabulary error
VocabCell_ErrorIsOne(res) == IF res # "vocab_error" /\ res # "other_error" THEN 0 ELSE 1

VocabCell(res) == IF res # "vocab_error" /\ res # "other_error" THEN 1 ELSE 0

LogicMatrixOf(om) == [i \in DOMAIN om |-> [j \in DOMAIN om[i] |-> LogicCell(om[i][j])]]

VocabMatrixOf(om) == [i \in DOMAIN om |-> [j \in DOMAIN om[i] |-> VocabCell(om[i][j])]]

\* only the first test is run against each program
Calls_FirstTestOnly(sols, tests) ==
    [k \in 1..(IF tests = <<>> THEN 0 ELSE Len(sols)) |-> <<k, 1>>]

\* "for sol in solutions: for tc in test_cases: self._run_single_test(...)":
\* the (program, test) positions of the calls, in the order they are made
Calls(sols, tests) ==
    [k \in 1..(Len(sols) * Len(tests)) |->
        <<((k - 1) \div Len(tests)) + 1, ((k - 1) % Len(tests)) + 1>>]

\* "total = len(test_cases) or 1" without the "or 1"
FitnessTotal_NoGuard(tests) == Len(tests)

\* "total = len(test_cases) or 1"
FitnessTotal(tests) == IF Len(tests) = 0 THEN 1 ELSE Len(tests)

\* sol.logic_fitness = logic_passes / total, sol.vocab_fitness = vocab_passes / total:
\* the passes counted along a matrix row, kept as the fraction [num, den]
Fitness(row, tests) == [num |-> SumSeq(row), den |-> FitnessTotal(tests)]

\* the binary entropy -(p log2 p + (1 - p) log2 (1 - p)) of p = passed / total
\* for 0 < passed < total: it is symmetric in p and 1 - p and grows with
\* min(p, 1 - p), so it is kept as min(passed, total - passed)
Entropy(passed, total) == IF passed <= total - passed THEN passed ELSE total - passed

\* "num_sols = len(solutions) or 1"
NumSols(sols) == IF Len(sols) = 0 THEN 1 ELSE Len(sols)

\* tc.logic_fitness = logic_pass_count / num_sols, tc.vocab_fitness likewise:
\* the passes counted down column j over range(num_sols)
TestFitness(matrix, j, sols) ==
    [num |-> SumSeq([i \in 1..NumSols(sols) |-> matrix[i][j]]), den |-> NumSols(sols)]

\* _compute_discrimination: p = (sum of column j) / total if total else 0.0,
\* disc = 0.0 if p in (0.0, 1.0) else the entropy of p
compute_discrimination(matrix, tests) ==
    [j \in DOMAIN tests |->
        LET passed == SumSeq([i \in DOMAIN matrix |-> matrix[i][j]])
        IN IF Len(matrix) = 0 \/ passed = 0 \/ passed = Len(matrix)
           THEN 0
           ELSE Entropy(passed, Len(matrix))]

\* the text _run_single_test is given: src/test caches original_program /
\* original_fact in canonical_program / canonical_fact when that is None;
\* src/Evo-Logic-LM runs canonical_program (a property over the declarations
\* and constraints split off at construction) and options_block
Canonical0(v) == IF v = "prolog" THEN NoText ELSE "seed"

\* str.strip() on the texts of the model
strip(text) == IF text = "repaired\n" THEN "repaired" ELSE text

\* the answer is written into every individual
Original_Everywhere(k, tgt, upd) == IF upd # "" THEN strip(upd) ELSE "seed"

\* the answer is written into the target without "if updated:"
Original_Unguarded(k, tgt, upd) == IF k = tgt THEN strip(upd) ELSE "seed"

\* original_program / original_fact (original_block) of individual k, "seed"
\* being the text it had when the target was selected: "if updated:
\* sol.original_program = updated.strip()" wrote into the target only
Original(k, tgt, upd) == IF k = tgt /\ upd # "" THEN strip(upd) ELSE "seed"

Cached(v, canon, tgt, upd) ==
    [k \in DOMAIN canon |->
        IF v = "prolog" /\ canon[k] = NoText THEN Original(k, tgt, upd) ELSE canon[k]]

\* the test-level summary reads logic_matrix[i][j] for i in range(len(solutions) or 1):
\* with no program and at least one test it reads row 0 of an empty matrix
EvaluateRaises(sols, tests) == sols = <<>> /\ tests # <<>>

(***************************************************************************)
(* compute_pass_rates                                                      *)
(***************************************************************************)
\* pass_matrix of run_vocab_alignment: src/test inverts the evaluator's
\* vocab_matrix, src/Evo-Logic-LM passes it on unchanged
PassMatrix(v, vm) ==
    IF v = "prolog"
    THEN [i \in DOMAIN vm |-> [j \in DOMAIN vm[i] |-> 1 - vm[i][j]]]
    ELSE vm

\* the early "return [], []" of compute_pass_rates
RatesEmpty(v, pm) ==
    IF v = "prolog" THEN pm = <<>> ELSE pm = <<>> \/ pm[1] = <<>>

\* sum(row) / n_test with n_test = 0
RatesRaise(v, pm) == ~RatesEmpty(v, pm) /\ Len(pm[1]) = 0

\* rates are fractions [num, den], den > 0
ProgRates(pm) == [i \in DOMAIN pm |-> [num |-> SumSeq(pm[i]), den |-> Len(pm[1])]]

\* the column sums divided by n_test instead of n_prog
TestRates_DividedByTests(pm) ==
    [j \in DOMAIN pm[1] |->
        [num |-> SumSeq([i \in DOMAIN pm |-> pm[i][j]]), den |-> Len(pm[1])]]

TestRates(pm) ==
    [j \in DOMAIN pm[1] |->
        [num |-> SumSeq([i \in DOMAIN pm |-> pm[i][j]]), den |-> Len(pm)]]

RateLess(a, b) == a.num * b.den < b.num * a.den

RateGood(r) == r.num * GoodDen >= GoodNum * r.den

AllGood(rates) == \A k \in DOMAIN rates : RateGood(rates[k])

(***************************************************************************)
(* select_refactor_target                                                  *)
(***************************************************************************)
Eligible(key, iteration, ra, lfi) ==
    /\ ~(ra[key] >= max_repair_tries)
    /\ ~(key \in DOMAIN lfi /\ iteration - lfi[key] <= cooldown_iters)

\* every (kind, idx, rate), programs first, then tests, as the two loops visit them
AllItems(prog_rates, test_rates) ==
    [k \in 1..(Len(prog_rates) + Len(test_rates)) |->
        IF k <= Len(prog_rates)
        THEN [kind |-> "program", idx |-> k, rate |-> prog_rates[k]]
        ELSE [kind |-> "test", idx |-> k - Len(prog_rates),
              rate |-> test_rates[k - Len(prog_rates)]]]

Candidates(prog_rates, test_rates, iteration, ra, lfi) ==
    SelectSeq(AllItems(prog_rates, test_rates),
              LAMBDA c : Eligible(<<c.kind, c.idx>>, iteration, ra, lfi))

\* candidates[0] instead of the minimum
MinCandidate_First(cands) == <<cands[1].kind, cands[1].idx>>

\* min(candidates, key=rate): the first candidate of minimal rate
MinCandidate(cands) ==
    LET k == CHOOSE n \in DOMAIN cands :
                 /\ \A m \in DOMAIN cands : ~RateLess(cands[m].rate, cands[n].rate)
                 /\ \A m \in 1..(n - 1) : RateLess(cands[n].rate, cands[m].rate)
    IN <<cands[k].kind, cands[k].idx>>

\* the deque is not rotated
Rotate_Stay(head) == head

\* _catastrophe.rotate(-1) on the deque of two kinds
Rotate(head) == IF head = "program" THEN "test" ELSE "program"

\* the indices random.randrange may return in the fallback
FallbackIndices(kind, prog_rates, test_rates) ==
    IF kind = "program" THEN DOMAIN prog_rates ELSE DOMAIN test_rates

(***************************************************************************)
(* repair_program / repair_test                                            *)
(***************************************************************************)
\* src/Evo-Logic-LM repair_test reads failing_progs[0] when no failing
\* program shares an error with the test; every failing program shares one
\* (Evaluator.evaluate appends the same reason to both), so this is the case
\* of an empty failing_progs
RepairRaises(v, key, pm) ==
    /\ v = "z3"
    /\ key[1] = "test"
    /\ \A i \in DOMAIN pm : pm[i][key[2]] # 0

(***************************************************************************)
(* State                                                                   *)
(***************************************************************************)
Keys == ({"program"} \X (1..Len(solutions))) \cup ({"test"} \X (1..Len(test_cases)))

Ids(n) == [k \in 1..n |-> k]

Shapes == {s \in (0..MaxCells) \X (0..MaxCells) : s[1] * s[2] <= MaxCells}

\* no CoCoEvoEngine has been constructed
EngineIdle ==
    /\ pop_cap_programs = 0
    /\ pop_cap_tests = 0
    /\ max_reseed_attempts = 0
    /\ max_generations = 0
    /\ gen = 0
    /\ flag = FALSE
    /\ code_population = <<>>
    /\ stage1_passed = FALSE
    /\ reseeds = 0

Init ==
    /\ variant \in Variants
    /\ \E s \in Shapes : solutions = Ids(s[1]) /\ test_cases = Ids(s[2])
    /\ max_iters \in 0..MaxIters
    /\ it = 1
    /\ pc = "eval"
    /\ result = "none"
    /\ logic_matrix = <<>>
    /\ logic_discrimination = <<>>
    /\ evaluated = NothingEvaluated
    /\ vocab_matrix = <<>>
    /\ repair_attempts = [k \in Keys |-> 0]
    /\ last_fixed_iter = <<>>
    /\ catastrophe = "program"
    /\ fallbacks = NoFallbacks
    /\ target = NoTarget
    /\ eval_passes = 0
    /\ test_population = <<>>
    /\ select_size = 0
    /\ mode = "auto"
    /\ filter_algo = ""
    /\ selected = <<>>
    /\ EngineIdle
    /\ single_test = NoCall
    /\ updated = ""
    /\ canonical = [k \in Keys |-> Canonical0(variant)]

(***************************************************************************)
(* run_vocab_alignment, one action per step of an iteration                *)
(***************************************************************************)
pass_matrix == PassMatrix(variant, vocab_matrix)

\* the fitness fields of test j after the latest evaluation pass
test_logic_fitness(j) == TestFitness(logic_matrix, j, solutions)

test_vocab_fitness(j) == TestFitness(vocab_matrix, j, solutions)

\* the fitness fields of program i after the latest evaluation pass
logic_fitness(i) == Fitness(logic_matrix[i], test_cases)

vocab_fitness(i) == Fitness(vocab_matrix[i], test_cases)

prog_rates == IF RatesEmpty(variant, pass_matrix) THEN <<>> ELSE ProgRates(pass_matrix)

test_rates == IF RatesEmpty(variant, pass_matrix) THEN <<>> ELSE TestRates(pass_matrix)

\* the call returns or raises: the answer held by the repair is dropped
Return(r) ==
    /\ pc' = "done"
    /\ result' = r
    /\ updated' = ""

\* suite_manager.evaluate_fitness: the matrices are rebuilt from scratch
Evaluate ==
    /\ pc = "eval"
    /\ it <= max_iters
    /\ ~EvaluateRaises(solutions, test_cases)
    /\ \E om \in [1..Len(solutions) -> [1..Len(test_cases) -> Outcomes]] :
        /\ logic_matrix' = LogicMatrixOf(om)
        /\ vocab_matrix' = VocabMatrixOf(om)
        /\ logic_discrimination' = compute_discrimination(LogicMatrixOf(om), test_cases)
        /\ evaluated' = [solutions |-> solutions, test_cases |-> test_cases,
                         logic_matrix |-> LogicMatrixOf(om),
                         calls |-> Calls(solutions, test_cases)]
    /\ canonical' = Cached(variant, canonical, target, updated)
    /\ eval_passes' = eval_passes + 1
    /\ pc' = "rates"
    /\ UNCHANGED <<variant, solutions, test_cases, max_iters, it, result,
                   repair_attempts, last_fixed_iter, catastrophe, fallbacks, target, updated>>
    /\ UNCHANGED paretoVars

\* suite_manager.evaluate_fitness raises in the test-level summary
EvaluateIndexError ==
    /\ pc = "eval"
    /\ it <= max_iters
    /\ EvaluateRaises(solutions, test_cases)
    /\ Return("IndexError")
    /\ UNCHANGED <<variant, solutions, test_cases, max_iters, it, logic_matrix,
                   logic_discrimination, evaluated,
                   vocab_matrix, repair_attempts, last_fixed_iter, catastrophe, fallbacks,
                   target, eval_passes>>
    /\ UNCHANGED <<paretoVars, canonical>>

\* the for loop is exhausted: "Failed to converge within max_iters"
ReturnExhausted ==
    /\ pc = "eval"
    /\ it > max_iters
    /\ Return("False")
    /\ UNCHANGED <<variant, solutions, test_cases, max_iters, it, logic_matrix,
                   logic_discrimination, evaluated,
                   vocab_matrix, repair_attempts, last_fixed_iter, catastrophe, fallbacks,
                   target, eval_passes>>
    /\ UNCHANGED <<paretoVars, canonical>>

\* compute_pass_rates divides by n_test = 0
RaiseZeroDivision ==
    /\ pc = "rates"
    /\ RatesRaise(variant, pass_matrix)
    /\ Return("ZeroDivisionError")
    /\ UNCHANGED <<variant, solutions, test_cases, max_iters, it, logic_matrix,
                   logic_discrimination, evaluated,
                   vocab_matrix, repair_attempts, last_fixed_iter, catastrophe, fallbacks,
                   target, eval_passes>>
    /\ UNCHANGED <<paretoVars, canonical>>

\* "if not prog_rates or not test_rates: return False"
ReturnNothingEvaluated ==
    /\ pc = "rates"
    /\ ~RatesRaise(variant, pass_matrix)
    /\ prog_rates = <<>> \/ test_rates = <<>>
    /\ Return("False")
    /\ UNCHANGED <<variant, solutions, test_cases, max_iters, it, logic_matrix,
                   logic_discrimination, evaluated,
                   vocab_matrix, repair_attempts, last_fixed_iter, catastrophe, fallbacks,
                   target, eval_passes>>
    /\ UNCHANGED <<paretoVars, canonical>>

Aligned == AllGood(prog_rates) /\ AllGood(test_rates)

\* "Vocabulary aligned."
ReturnAligned ==
    /\ pc = "rates"
    /\ ~RatesRaise(variant, pass_matrix)
    /\ prog_rates # <<>> /\ test_rates # <<>>
    /\ Aligned
    /\ Return("True")
    /\ UNCHANGED <<variant, solutions, test_cases, max_iters, it, logic_matrix,
                   logic_discrimination, evaluated,
                   vocab_matrix, repair_attempts, last_fixed_iter, catastrophe, fallbacks,
                   target, eval_passes>>
    /\ UNCHANGED <<paretoVars, canonical>>

candidates == Candidates(prog_rates, test_rates, it, repair_attempts, last_fixed_iter)

MustRepair ==
    /\ pc = "rates"
    /\ ~RatesRaise(variant, pass_matrix)
    /\ prog_rates # <<>> /\ test_rates # <<>>
    /\ ~Aligned

\* select_refactor_target, normal case: the worst eligible pass rate
SelectWorst ==
    /\ MustRepair
    /\ candidates # <<>>
    /\ target' = MinCandidate(candidates)
    /\ pc' = "repair"
    /\ UNCHANGED <<variant, solutions, test_cases, max_iters, it, result,
                   logic_matrix, logic_discrimination, evaluated, vocab_matrix,
                   repair_attempts, last_fixed_iter,
                   catastrophe, fallbacks, eval_passes>>
    /\ updated' = ""
    /\ UNCHANGED <<paretoVars, canonical>>

\* select_refactor_target, everything blocked: catastrophe alternation
SelectFallback ==
    /\ MustRepair
    /\ candidates = <<>>
    /\ \E idx \in FallbackIndices(catastrophe, prog_rates, test_rates) :
        target' = <<catastrophe, idx>>
    /\ catastrophe' = Rotate(catastrophe)
    /\ fallbacks' = [run |-> Append(fallbacks.run, catastrophe), last |-> catastrophe]
    /\ pc' = "repair"
    /\ UNCHANGED <<variant, solutions, test_cases, max_iters, it, result,
                   logic_matrix, logic_discrimination, evaluated, vocab_matrix,
                   repair_attempts, last_fixed_iter,
                   eval_passes>>
    /\ updated' = ""
    /\ UNCHANGED <<paretoVars, canonical>>

\* repair_program / repair_test, then the bookkeeping of the iteration
Repair ==
    /\ pc = "repair"
    /\ ~RepairRaises(variant, target, pass_matrix)
    /\ updated' \in Answers
    /\ repair_attempts' = [repair_attempts EXCEPT ![target] = @ + 1]
    /\ last_fixed_iter' = (target :> it) @@ last_fixed_iter
    /\ it' = it + 1
    /\ pc' = "eval"
    /\ UNCHANGED <<variant, solutions, test_cases, max_iters, result,
                   logic_matrix, logic_discrimination, evaluated, vocab_matrix,
                   catastrophe, fallbacks, target, eval_passes>>
    /\ UNCHANGED <<paretoVars, canonical>>

\* repair_test of src/Evo-Logic-LM indexes an empty failing_progs
RaiseIndexError ==
    /\ pc = "repair"
    /\ RepairRaises(variant, target, pass_matrix)
    /\ Return("IndexError")
    /\ UNCHANGED <<variant, solutions, test_cases, max_iters, it, logic_matrix,
                   logic_discrimination, evaluated,
                   vocab_matrix, repair_attempts, last_fixed_iter, catastrophe, fallbacks,
                   target, eval_passes>>
    /\ UNCHANGED <<paretoVars, canonical>>

\* a later call of run_vocab_alignment in the same process, on a newly seeded
\* suite of the same shape (batch_run.py builds one SuiteManager per policy):
\* the locals and the texts are fresh, the module-level deque is not
NewRun ==
    /\ pc = "done"
    /\ result \in {"True", "False"}
    /\ it' = 1
    /\ pc' = "eval"
    /\ result' = "none"
    /\ logic_matrix' = <<>>
    /\ vocab_matrix' = <<>>
    /\ logic_discrimination' = <<>>
    /\ evaluated' = NothingEvaluated
    /\ repair_attempts' = [k \in Keys |-> 0]
    /\ last_fixed_iter' = <<>>
    /\ target' = NoTarget
    /\ eval_passes' = 0
    /\ updated' = ""
    /\ canonical' = [k \in Keys |-> Canonical0(variant)]
    /\ fallbacks' = [fallbacks EXCEPT !.run = <<>>]
    /\ UNCHANGED <<variant, solutions, test_cases, max_iters, catastrophe>>
    /\ UNCHANGED paretoVars

Next ==
    \/ Evaluate
    \/ EvaluateIndexError
    \/ ReturnExhausted
    \/ RaiseZeroDivision
    \/ ReturnNothingEvaluated
    \/ ReturnAligned
    \/ SelectWorst
    \/ SelectFallback
    \/ Repair
    \/ RaiseIndexError
    \/ NewRun

Spec == Init /\ [][Next]_vars

(***************************************************************************)
(* Pareto utilities: dominates, build_pareto_front, pareto_selection       *)
(*                                                                         *)
(* An individual is a record [idx, conf, disc, fitness]; idx is unique in  *)
(* a population, as in CoCoEvoEngine.test_population.  conf and disc are   *)
(* levels of an ordered scale: the selection only compares them.           *)
(***************************************************************************)
MaxPop == 3
MaxMetric == 1

Metrics == {"conf", "disc"}

Range(seq) == {seq[k] : k \in DOMAIN seq}

Dominates(a, b, metrics) ==
    LET better_or_equal == \A m \in metrics : a[m] >= b[m]
        strictly_better == \E m \in metrics : a[m] > b[m]
    IN better_or_equal /\ strictly_better

\* one individual per front, in the order of the population
FrontOf_First(remaining, metrics) == <<remaining[1]>>

\* the argument-order slip: keeps the individuals that dominate nobody
FrontOf_Swapped(remaining, metrics) ==
    SelectSeq(remaining,
              LAMBDA p : ~\E k \in DOMAIN remaining :
                            remaining[k] # p /\ Dominates(p, remaining[k], metrics))

\* front = [p for p in remaining if not any(dominates(q, p) for q in remaining if q is not p)]
FrontOf(remaining, metrics) ==
    SelectSeq(remaining,
              LAMBDA p : ~\E k \in DOMAIN remaining :
                            remaining[k] # p /\ Dominates(remaining[k], p, metrics))

RECURSIVE BuildParetoFront(_, _)
BuildParetoFront(remaining, metrics) ==
    IF remaining = <<>> THEN <<>>
    ELSE LET front == FrontOf(remaining, metrics)
             rest == SelectSeq(remaining, LAMBDA p : p \notin Range(front))
         IN <<front>> \o BuildParetoFront(rest, metrics)

\* sorted(f, key=fitness, reverse=True): stable, equal keys keep their order
SortedByFitnessDesc(f) ==
    LET pos(i) == 1 + Cardinality({j \in DOMAIN f : f[j].fitness > f[i].fitness})
                    + Cardinality({j \in 1..(i - 1) : f[j].fitness = f[i].fitness})
    IN [k \in DOMAIN f |-> f[CHOOSE i \in DOMAIN f : pos(i) = k]]

\* random.sample(f, k): k distinct members of f, in any order
Samples(f, k) ==
    {[n \in 1..k |-> f[pick[n]]] :
        pick \in {q \in [1..k -> DOMAIN f] : \A a, b \in 1..k : a # b => q[a] # q[b]}}

\* the for loop of pareto_selection from front i on: every list it can end with
RECURSIVE Accumulate(_, _, _, _, _)
Accumulate(sel, fronts, i, size, md) ==
    IF i > Len(fronts) \/ Len(sel) >= size THEN {sel}
    ELSE LET f == fronts[i]
         IN IF Len(sel) + Len(f) <= size
            THEN Accumulate(sel \o f, fronts, i + 1, size, md)
            ELSE IF md = "strict"
            THEN Accumulate(sel \o SubSeq(SortedByFitnessDesc(f), 1, size - Len(sel)),
                            fronts, i + 1, size, md)
            ELSE UNION {Accumulate(sel \o s, fronts, i + 1, size, md) :
                            s \in Samples(f, size - Len(sel))}

SumFitness(pop) == SumSeq([k \in DOMAIN pop |-> pop[k].fitness])

\* filter_algo == "avg": keep s with s.fitness >= sum / max(1, len)
AvgFilter(sel, pop) ==
    LET n == IF Len(pop) >= 1 THEN Len(pop) ELSE 1
    IN SelectSeq(sel, LAMBDA x : x.fitness * n >= SumFitness(pop))

\* fronts[0] of an empty list of fronts
ParetoRaises(pop) == BuildParetoFront(pop, Metrics) = <<>>

\* every list pareto_selection can return (pop non-empty)
ParetoSelection(pop, size, metrics, md, flt) ==
    LET fronts == BuildParetoFront(pop, metrics)
        lists == Accumulate(fronts[1], fronts, 2, size, md)
    IN IF flt = "avg" THEN {AvgFilter(l, pop) : l \in lists} ELSE lists

Levels == 0..MaxMetric

\* fitness = 0.5 * conf + 0.5 * disc (CoCoEvoEngine._evaluate_logic), doubled
Individual(i, c, d) == [idx |-> i, conf |-> c, disc |-> d, fitness |-> c + d]

Populations ==
    UNION {{[k \in 1..n |-> Individual(k, m[k][1], m[k][2])] :
                m \in [1..n -> Levels \X Levels]} : n \in 0..MaxPop}

stage1Vars == <<variant, solutions, test_cases, max_iters, it,
                logic_matrix, logic_discrimination, evaluated, vocab_matrix,
          repair_attempts, last_fixed_iter,
                catastrophe, fallbacks, target, eval_passes, engineVars, single_test, texts>>

ParetoInit ==
    /\ variant = "prolog"
    /\ solutions = <<>>
    /\ test_cases = <<>>
    /\ max_iters = 0
    /\ it = 1
    /\ logic_matrix = <<>>
    /\ logic_discrimination = <<>>
    /\ evaluated = NothingEvaluated
    /\ vocab_matrix = <<>>
    /\ repair_attempts = <<>>
    /\ last_fixed_iter = <<>>
    /\ catastrophe = "program"
    /\ fallbacks = NoFallbacks
    /\ target = NoTarget
    /\ eval_passes = 0
    /\ pc = "select"
    /\ result = "none"
    /\ test_population \in Populations
    /\ select_size \in 0..(MaxPop + 1)
    /\ mode \in {"auto", "strict"}
    /\ filter_algo \in {"", "avg"}
    /\ selected = <<>>
    /\ EngineIdle
    /\ single_test = NoCall
    /\ updated = ""
    /\ canonical = <<>>

\* pareto_selection returns
Select ==
    /\ pc = "select"
    /\ ~ParetoRaises(test_population)
    /\ selected' \in ParetoSelection(test_population, select_size, Metrics, mode, filter_algo)
    /\ pc' = "returned"
    /\ UNCHANGED <<result, test_population, select_size, mode, filter_algo>>
    /\ UNCHANGED stage1Vars

\* pareto_selection raises IndexError on fronts[0]
SelectRaises ==
    /\ pc = "select"
    /\ ParetoRaises(test_population)
    /\ pc' = "returned"
    /\ result' = "IndexError"
    /\ UNCHANGED <<test_population, select_size, mode, filter_algo, selected>>
    /\ UNCHANGED stage1Vars

ParetoNext ==
    \/ Select
    \/ SelectRaises

SpecPareto == ParetoInit /\ [][ParetoNext]_vars

(***************************************************************************)
(* Evaluator._run_single_test (src/test/evaluator.py), checked under       *)
(* SpecClassify: one call, its arguments and the answer of consult drawn   *)
(* by the initial state.                                                   *)
(***************************************************************************)
\* strings are sequences of characters, so that "substr in reason" is computed
\* the reason consult gives for __FAIL__
GoalFailedText ==
    <<"G", "o", "a", "l", " ", "f", "a", "i", "l", "e", "d">>

\* the reason consult gives for a timeout
TimeoutText ==
    <<"T", "i", "m", "e", "o", "u", "t">>

\* consult: any other exception
ExecutionErrorText ==
    <<"E", "x", "e", "c", "u", "t", "i", "o", "n", " ", "e", "r", "r", "o",
      "r", ":", " ", "x">>

\* consult: __ERROR__ in stdout, the message on stderr
UnknownProcedureText ==
    <<"P", "r", "o", "l", "o", "g", " ", "e", "r", "r", "o", "r", ":", "\n",
      "_", "_", "E", "R", "R", "O", "R", "_", "_", "\n", "E", "R", "R", "O",
      "R", ":", " ", "U", "n", "k", "n", "o", "w", "n", " ", "p", "r", "o",
      "c", "e", "d", "u", "r", "e", ":", " ", "f", "/", "1">>

\* consult: __ERROR__ in stdout, a warning on stderr
RaisedWarningText ==
    <<"P", "r", "o", "l", "o", "g", " ", "e", "r", "r", "o", "r", ":", "\n",
      "_", "_", "E", "R", "R", "O", "R", "_", "_", "\n", "W", "a", "r", "n",
      "i", "n", "g", ":", " ", "g">>

\* consult: a load error on stderr
SyntaxErrorText ==
    <<"P", "r", "o", "l", "o", "g", " ", "e", "r", "r", "o", "r", ":", "\n",
      "\n", "E", "R", "R", "O", "R", ":", " ", "S", "y", "n", "t", "a", "x",
      " ", "e", "r", "r", "o", "r", ":", " ", "x">>

\* consult: "ERROR" in stderr.upper()
LowercaseErrorText ==
    <<"P", "r", "o", "l", "o", "g", " ", "e", "r", "r", "o", "r", ":", "\n",
      "\n", "e", "r", "r", "o", "r">>

\* consult: no marker on stdout, nothing on stderr
UnexpectedEmptyText ==
    <<"U", "n", "e", "x", "p", "e", "c", "t", "e", "d", " ", "o", "u", "t",
      "p", "u", "t", ":", "\n", "\n">>

\* consult: no marker on stdout, a warning on stderr
UnexpectedWarningText ==
    <<"U", "n", "e", "x", "p", "e", "c", "t", "e", "d", " ", "o", "u", "t",
      "p", "u", "t", ":", "\n", "\n", "W", "a", "r", "n", "i", "n", "g", ":",
      " ", "g">>

\* consult: no marker, the words on stdout
UnexpectedUndefinedText ==
    <<"U", "n", "e", "x", "p", "e", "c", "t", "e", "d", " ", "o", "u", "t",
      "p", "u", "t", ":", "\n", "U", "n", "d", "e", "f", "i", "n", "e", "d",
      " ", "p", "r", "o", "c", "e", "d", "u", "r", "e", "\n">>

PatUnknownProcedure ==
    <<"U", "n", "k", "n", "o", "w", "n", " ", "p", "r", "o", "c", "e", "d",
      "u", "r", "e">>

PatUndefinedProcedure ==
    <<"U", "n", "d", "e", "f", "i", "n", "e", "d", " ", "p", "r", "o", "c",
      "e", "d", "u", "r", "e">>

PatError ==
    <<"E", "R", "R", "O", "R", ":">>

PatSyntaxError ==
    <<"S", "y", "n", "t", "a", "x", " ", "e", "r", "r", "o", "r">>

\* the answers consult(program, goal) gives for a non-empty program and goal
ConsultAnswers ==
    {[passed |-> TRUE, reason |-> None]} \cup
    {[passed |-> FALSE, reason |-> r] :
        r \in {GoalFailedText, TimeoutText, ExecutionErrorText, UnknownProcedureText,
               RaisedWarningText, SyntaxErrorText, LowercaseErrorText,
               UnexpectedEmptyText, UnexpectedWarningText, UnexpectedUndefinedText}}

Programs == {"", "p."}

Facts == {"", ".", "% c", "test(\"t\", g).", "g."}

\* extract_goal on the facts above: comments dropped, the goal of test(Name, Goal)
\* or the bare goal, without the final "."
extract_goal(fact) ==
    CASE fact = "test(\"t\", g)." -> "g"
      [] fact = "g." -> "g"
      [] OTHER -> ""

\* "substr in reason"
Contains(text, substr) ==
    \E k \in 0..(Len(text) - Len(substr)) :
        \A n \in DOMAIN substr : text[k + n] = substr[n]

is_vocab_error(reason) ==
    IF reason = <<>> THEN FALSE
    ELSE \E substr \in {PatUnknownProcedure, PatUndefinedProcedure, PatError, PatSyntaxError} :
            Contains(reason, substr)

\* any(substr in reason for substr in ("Goal failed")): the parentheses make no
\* tuple, so substr runs over the characters of the string
is_logic_error(reason) ==
    IF reason = <<>> THEN FALSE
    ELSE \E k \in DOMAIN GoalFailedText : Contains(reason, <<GoalFailedText[k]>>)

\* the (result, reason) pair _run_single_test returns
run_single_test(program, fact, answer) ==
    IF program = "" \/ fact = "" THEN <<"other_error", "Missing program or test fact">>
    ELSE IF extract_goal(fact) = "" THEN <<"other_error", "Malformed test case">>
    ELSE IF ~answer.passed
         THEN IF is_vocab_error(answer.reason) THEN <<"vocab_error", answer.reason>>
              ELSE IF is_logic_error(answer.reason) THEN <<"logic_error", answer.reason>>
              ELSE IF ~is_logic_error(answer.reason) /\ ~is_vocab_error(answer.reason)
                   THEN <<"other_error", answer.reason>>
                   ELSE <<"logic_pass", None>>
         ELSE <<"logic_pass", None>>

ClassifyInit ==
    /\ variant = "prolog"
    /\ solutions = <<>>
    /\ test_cases = <<>>
    /\ max_iters = 0
    /\ it = 1
    /\ logic_matrix = <<>>
    /\ logic_discrimination = <<>>
    /\ evaluated = NothingEvaluated
    /\ vocab_matrix = <<>>
    /\ repair_attempts = <<>>
    /\ last_fixed_iter = <<>>
    /\ catastrophe = "program"
    /\ fallbacks = NoFallbacks
    /\ target = NoTarget
    /\ eval_passes = 0
    /\ test_population = <<>>
    /\ select_size = 0
    /\ mode = "auto"
    /\ filter_algo = ""
    /\ selected = <<>>
    /\ EngineIdle
    /\ updated = ""
    /\ canonical = <<>>
    /\ pc = "run_single_test"
    /\ result = "none"
    /\ \E program \in Programs, fact \in Facts, answer \in ConsultAnswers :
        single_test = [program |-> program, fact |-> fact,
                       passed |-> answer.passed, reason |-> answer.reason]

\* result, reason = self._run_single_test(sol.canonical_program, tc.canonical_fact)
RunSingleTest ==
    /\ pc = "run_single_test"
    /\ result' = run_single_test(single_test.program, single_test.fact,
                                 [passed |-> single_test.passed,
                                  reason |-> single_test.reason])[1]
    /\ pc' = "classified"
    /\ UNCHANGED <<test_population, select_size, mode, filter_algo, selected>>
    /\ UNCHANGED stage1Vars

ClassifyNext == RunSingleTest

SpecClassify == ClassifyInit /\ [][ClassifyNext]_vars

(***************************************************************************)
(* CoCoEvoEngine (src/test/coevo_engine.py), checked under SpecEngine      *)
(*                                                                         *)
(* A program is a record [id, empty]: its identity and whether its         *)
(* original_program is None or blank.  A test is its identity.  Stage 1 is *)
(* the run_vocab_alignment of src/test/evolve.py, the module the engine    *)
(* imports; a call is summarised by what it can return or raise.           *)
(***************************************************************************)
MaxEngineCells == 2
MaxCap == 2
MaxReseeds == 2
MaxGens == 2

Program(i, e) == [id |-> i, empty |-> e]

ProgramIds(sols) == {sols[k].id : k \in DOMAIN sols}

\* the populations the model lets the evaluator see: at most MaxEngineCells cells
Fits(p, t) == p * t <= MaxEngineCells

EngineShapes ==
    {s \in (0..MaxEngineCells) \X (0..MaxEngineCells) : Fits(s[1], s[2])}

\* what run_vocab_alignment(sm, max_iters=iters) returns or raises: no
\* iteration or no program returns False, programs without tests divide by
\* zero in compute_pass_rates, programs that are all blank give "other_error"
\* in every cell, which the inverted pass matrix counts as aligned
Stage1Results(sols, tests, iters) ==
    IF iters <= 0 THEN {"False"}
    ELSE IF EvaluateRaises(sols, tests) THEN {"IndexError"}
    ELSE IF sols = <<>> THEN {"False"}
    ELSE IF tests = <<>> THEN {"ZeroDivisionError"}
    ELSE IF \A k \in DOMAIN sols : sols[k].empty THEN {"True"}
    ELSE {"True", "False"}

\* the programs after a call that returned True: repair_program overwrites
\* one original_program in each iteration that did not return
Stage1Texts(sols, iters) ==
    IF \A k \in DOMAIN sols : sols[k].empty THEN {sols}
    ELSE {s \in [DOMAIN sols -> {Program(sols[k].id, e) : k \in DOMAIN sols, e \in BOOLEAN}] :
            /\ \A k \in DOMAIN sols : s[k].id = sols[k].id
            /\ Cardinality({k \in DOMAIN sols : s[k].empty # sols[k].empty}) <= iters - 1}

\* cosine_scheduler(step, total_steps) in ten-thousandths, rounded down; with
\* it int(num_children * rate) is exact for num_children < 10
cosine_scheduler(step, total_steps) ==
    LET rates == << <<1000>>,
                    <<1000, 5000>>,
                    <<1000, 2999, 7000>>,
                    <<1000, 2171, 5000, 7828>> >>
    IN rates[total_steps][step + 1]

num_children == pop_cap_programs

NumCross(g) == (num_children * cosine_scheduler(g - 1, max_generations)) \div 10000

NumMut(g) == num_children - NumCross(g)

\* num_new_tests = max(1, self.pop_cap_tests // 10)
num_new_tests == IF pop_cap_tests \div 10 >= 1 THEN pop_cap_tests \div 10 ELSE 1

\* the identities of the live objects: the two populations and the programs
\* code_population still refers to
Used ==
    ProgramIds(solutions) \cup {code_population[k].solution : k \in DOMAIN code_population}
        \cup Range(test_cases)

\* k identities no live object has (the n-th is the n-th smallest free one)
FreshIds(k, used) ==
    LET pool == (1..(Cardinality(used) + k)) \ used
    IN [n \in 1..k |-> CHOOSE x \in pool : Cardinality({y \in pool : y < x}) = n - 1]

\* k new non-blank programs / k new tests
NewPrograms(k) == [n \in 1..k |-> Program(FreshIds(k, Used)[n], FALSE)]

NewTests(k) == FreshIds(k, Used)

(***************************************************************************)
(* _evaluate_logic                                                         *)
(***************************************************************************)
ValidSolutions(sols) == SelectSeq(sols, LAMBDA s : ~s.empty)

\* self.logic_matrix = [self.logic_matrix[i] for i, _ in valid_pairs]
RECURSIVE ValidRows(_, _)
ValidRows(sols, em) ==
    IF sols = <<>> THEN <<>>
    ELSE IF Head(sols).empty THEN ValidRows(Tail(sols), Tail(em))
    ELSE <<Head(em)>> \o ValidRows(Tail(sols), Tail(em))

\* logic_fitness = passed / total, total = len(row) if row else 1
CodePopulation(valid, m) ==
    [k \in DOMAIN valid |->
        [solution |-> valid[k].id,
         logic_fitness |-> [num |-> SumSeq(m[k]),
                            den |-> IF Len(m[k]) > 0 THEN Len(m[k]) ELSE 1]]]

\* calculate_test_conf: passed / total with passed the summed fitness of the
\* programs passing test j; total and the fitness denominator are the same
\* for every test of a pass, so conf is kept as the numerator of passed
TestConf(j, cp, m) ==
    SumSeq([i \in DOMAIN cp |-> IF m[i][j] = 1 THEN cp[i].logic_fitness.num ELSE 0])

\* the number of passing programs taken for the discrimination
TestDisc_PassCount(j, cp, m) == SumSeq([i \in DOMAIN cp |-> m[i][j]])

\* calculate_test_disc: the binary entropy of p = passed / len(code_population);
\* it is symmetric in p and 1 - p and grows with min(p, 1 - p), so disc is
\* kept as min(passed, total - passed)
TestDisc(j, cp, m) ==
    LET passed == SumSeq([i \in DOMAIN cp |-> m[i][j]])
        total == Len(cp)
    IN IF passed <= total - passed THEN passed ELSE total - passed

TestPopulation(tests, cp, m) ==
    [j \in DOMAIN tests |-> Individual(j, TestConf(j, cp, m), TestDisc(j, cp, m))]

(***************************************************************************)
(* _trim_programs, _best_program, _program_feedback, _trim_tests           *)
(***************************************************************************)
SameFitness(a, b) ==
    ~RateLess(a.logic_fitness, b.logic_fitness) /\ ~RateLess(b.logic_fitness, a.logic_fitness)

\* reverse=False: lowest logic_fitness first
SortCodePopulation_Ascending(cp) ==
    LET pos(i) == 1 + Cardinality({j \in DOMAIN cp :
                                      RateLess(cp[j].logic_fitness, cp[i].logic_fitness)})
                    + Cardinality({j \in 1..(i - 1) : SameFitness(cp[j], cp[i])})
    IN [k \in DOMAIN cp |-> cp[CHOOSE i \in DOMAIN cp : pos(i) = k]]

\* code_population.sort(key=logic_fitness, reverse=True): stable
SortCodePopulation(cp) ==
    LET pos(i) == 1 + Cardinality({j \in DOMAIN cp :
                                      RateLess(cp[i].logic_fitness, cp[j].logic_fitness)})
                    + Cardinality({j \in 1..(i - 1) : SameFitness(cp[j], cp[i])})
    IN [k \in DOMAIN cp |-> cp[CHOOSE i \in DOMAIN cp : pos(i) = k]]

\* the solutions of code_population[-pop_cap_programs:]
KeepSolutions_Tail(cp, cap) ==
    {cp[k].solution : k \in {n \in DOMAIN cp : n > Len(cp) - cap}}

\* keep_solutions = the solutions of code_population[:pop_cap_programs]
KeepSolutions(cp, cap) ==
    {cp[k].solution : k \in {n \in DOMAIN cp : n <= cap}}

\* max(code_population, key=logic_fitness): the first of maximal fitness
BestEntry(cp) ==
    cp[CHOOSE n \in DOMAIN cp :
          /\ \A m \in DOMAIN cp : ~RateLess(cp[n].logic_fitness, cp[m].logic_fitness)
          /\ \A m \in 1..(n - 1) : RateLess(cp[m].logic_fitness, cp[n].logic_fitness)]

\* solutions.index(best["solution"])
IndexOf(sols, id) == CHOOSE k \in DOMAIN sols : sols[k].id = id /\ \A n \in 1..(k - 1) : sols[n].id # id

\* max() of an empty code_population, or the champion was culled
BestProgramRaises ==
    IF code_population = <<>> THEN TRUE
    ELSE BestEntry(code_population).solution \notin ProgramIds(solutions)

\* _program_feedback reads test_cases[j] for every column j of the champion's row
FeedbackRaises ==
    /\ ~BestProgramRaises
    /\ Len(logic_matrix[IndexOf(solutions, BestEntry(code_population).solution)]) > Len(test_cases)

\* _program_feedback: status = logic_matrix[p_idx]; the tests test_cases[j] of
\* the columns j with status[j] = 0 are the failing ones, the others the passing
program_feedback(p_idx) ==
    LET status == logic_matrix[p_idx]
        Column(ok) == SelectSeq([j \in DOMAIN status |-> j], LAMBDA j : status[j] = ok)
    IN [failing |-> [k \in DOMAIN Column(0) |-> test_cases[Column(0)[k]]],
        passing |-> [k \in DOMAIN Column(1) |-> test_cases[Column(1)[k]]]]

\* _spawn_test_feedback shows up to five examples of each list: [:5]
FirstFive(examples) == SubSeq(examples, 1, IF Len(examples) < 5 THEN Len(examples) ELSE 5)

\* the failing and passing examples of the prompt of _spawn_test_feedback
Examples ==
    LET feedback == program_feedback(IndexOf(solutions, BestEntry(code_population).solution))
    IN [failing |-> FirstFive(feedback.failing), passing |-> FirstFive(feedback.passing)]

\* keep = {d["idx"] for d in selected}
KeepTests(tests, sel) == SelectSeq([j \in DOMAIN tests |-> [pos |-> j, id |-> tests[j]]],
                                   LAMBDA t : t.pos \in {sel[k].idx : k \in DOMAIN sel})

(***************************************************************************)
(* CoCoEvoEngine.run                                                       *)
(***************************************************************************)
stage1Locals == <<variant, max_iters, it, vocab_matrix, repair_attempts,
                  last_fixed_iter, catastrophe, fallbacks, target, eval_passes, single_test, texts>>

paretoArgs == <<select_size, mode, filter_algo>>

EngineInit ==
    /\ pop_cap_programs \in 0..MaxCap
    /\ pop_cap_tests \in 0..MaxCap
    /\ max_reseed_attempts \in 0..MaxReseeds
    /\ max_generations \in 0..MaxGens
    /\ \E s \in EngineShapes : \E e \in [1..s[1] -> BOOLEAN] :
        /\ solutions = [k \in 1..s[1] |-> Program(k, e[k])]
        /\ test_cases = [k \in 1..s[2] |-> s[1] + k]
    /\ gen = 0
    /\ flag = FALSE
    /\ code_population = <<>>
    /\ logic_matrix = <<>>
    /\ logic_discrimination = <<>>
    /\ evaluated = NothingEvaluated
    /\ test_population = <<>>
    /\ selected = <<>>
    /\ stage1_passed = FALSE
    /\ reseeds = 0
    /\ pc = "align"
    /\ result = "none"
    /\ variant = "prolog"
    /\ max_iters = 0
    /\ it = 1
    /\ vocab_matrix = <<>>
    /\ repair_attempts = <<>>
    /\ last_fixed_iter = <<>>
    /\ catastrophe = "program"
    /\ fallbacks = NoFallbacks
    /\ target = NoTarget
    /\ eval_passes = 0
    /\ select_size = 0
    /\ mode = "auto"
    /\ filter_algo = ""
    /\ single_test = NoCall
    /\ updated = ""
    /\ canonical = <<>>

Raise(e) ==
    /\ pc' = "raised"
    /\ result' = e

\* "while not flag and self.max_reseed_attempts > 0"
AlignLoop == pc = "align" /\ ~flag /\ max_reseed_attempts > 0

\* _ensure_vocab_alignment() is true: flag = True
AlignPasses ==
    /\ AlignLoop
    /\ "True" \in Stage1Results(solutions, test_cases, max_reseed_attempts)
    /\ solutions' \in Stage1Texts(solutions, max_reseed_attempts)
    /\ flag' = TRUE
    /\ stage1_passed' = TRUE
    /\ UNCHANGED <<pc, result, test_cases, lastPass, test_population, selected,
                   pop_cap_programs, pop_cap_tests, max_reseed_attempts,
                   max_generations, gen, code_population, reseeds>>
    /\ UNCHANGED <<stage1Locals, paretoArgs>>

\* _ensure_vocab_alignment() is false: the elif decrements and reseeds, the
\* else raises RuntimeError
AlignFails ==
    /\ AlignLoop
    /\ "False" \in Stage1Results(solutions, test_cases, max_reseed_attempts)
    /\ IF max_reseed_attempts > 0
       THEN /\ max_reseed_attempts' = max_reseed_attempts - 1
            /\ pc' = "reseed"
            /\ UNCHANGED result
       ELSE /\ Raise("RuntimeError")
            /\ UNCHANGED max_reseed_attempts
    /\ UNCHANGED <<solutions, test_cases, lastPass, test_population, selected,
                   pop_cap_programs, pop_cap_tests, max_generations, gen, flag,
                   code_population, stage1_passed, reseeds>>
    /\ UNCHANGED <<stage1Locals, paretoArgs>>

\* run_vocab_alignment raises inside _ensure_vocab_alignment
AlignRaises ==
    /\ AlignLoop
    /\ \E r \in Stage1Results(solutions, test_cases, max_reseed_attempts) :
        /\ r \notin {"True", "False"}
        /\ Raise(r)
    /\ UNCHANGED <<solutions, test_cases, lastPass, test_population, selected>>
    /\ UNCHANGED engineVars
    /\ UNCHANGED <<stage1Locals, paretoArgs>>

\* the populations _reseed_populations builds: both lists cleared, two
\* generate_solutions calls of pop_cap_programs candidates each (a failed
\* generation leaves original_program None), no test
Reseeded ==
    {[k \in 1..(2 * pop_cap_programs) |->
            Program(FreshIds(2 * pop_cap_programs,
                             {code_population[n].solution : n \in DOMAIN code_population})[k],
                    e[k])] :
        e \in [1..(2 * pop_cap_programs) -> BOOLEAN]}

\* _reseed_populations, its closing _ensure_vocab_alignment() returns (the
\* value is dropped)
Reseed ==
    /\ pc = "reseed"
    /\ \E fresh \in Reseeded : \E r \in Stage1Results(fresh, <<>>, max_reseed_attempts) :
        /\ r \in {"True", "False"}
        /\ solutions' = fresh
        /\ stage1_passed' = (stage1_passed \/ r = "True")
    /\ test_cases' = <<>>
    /\ reseeds' = reseeds + 1
    /\ pc' = "align"
    /\ UNCHANGED <<result, lastPass, test_population, selected,
                   pop_cap_programs, pop_cap_tests, max_reseed_attempts,
                   max_generations, gen, flag, code_population>>
    /\ UNCHANGED <<stage1Locals, paretoArgs>>

\* _reseed_populations, its closing _ensure_vocab_alignment() raises
ReseedRaises ==
    /\ pc = "reseed"
    /\ \E fresh \in Reseeded : \E r \in Stage1Results(fresh, <<>>, max_reseed_attempts) :
        /\ r \notin {"True", "False"}
        /\ solutions' = fresh
        /\ Raise(r)
    /\ test_cases' = <<>>
    /\ reseeds' = reseeds + 1
    /\ UNCHANGED <<lastPass, test_population, selected,
                   pop_cap_programs, pop_cap_tests, max_reseed_attempts,
                   max_generations, gen, flag, code_population, stage1_passed>>
    /\ UNCHANGED <<stage1Locals, paretoArgs>>

\* the while loop ends: the run goes on to _evaluate_logic(scope="initial")
AlignExit ==
    /\ pc = "align"
    /\ ~(~flag /\ max_reseed_attempts > 0)
    /\ pc' = "initial"
    /\ UNCHANGED <<result, solutions, test_cases, lastPass, test_population, selected>>
    /\ UNCHANGED engineVars
    /\ UNCHANGED <<stage1Locals, paretoArgs>>

\* _evaluate_logic: evaluate_fitness, the filter of blank programs (their
\* rows leave logic_matrix with them), code_population, test_population
EvaluateLogic ==
    /\ pc \in {"initial", "spawned_programs", "post"}
    /\ ~EvaluateRaises(solutions, test_cases)
    /\ LET valid == ValidSolutions(solutions)
       IN \E em \in [1..Len(solutions) -> [1..Len(test_cases) -> {0, 1}]] :
          LET m == ValidRows(solutions, em)
          IN
            /\ logic_discrimination' = compute_discrimination(em, test_cases)
            /\ evaluated' = [solutions |-> solutions, test_cases |-> test_cases,
                             logic_matrix |-> em,
                             calls |-> Calls(solutions, test_cases)]
            /\ solutions' = valid
            /\ logic_matrix' = m
            /\ code_population' = CodePopulation(valid, m)
            /\ test_population' = TestPopulation(test_cases, CodePopulation(valid, m), m)
    /\ pc' = CASE pc = "initial" -> "generation"
               [] pc = "spawned_programs" -> "trim_programs"
               [] pc = "post" -> "trim_tests"
    /\ UNCHANGED <<result, test_cases, selected,
                   pop_cap_programs, pop_cap_tests, max_reseed_attempts,
                   max_generations, gen, flag, stage1_passed, reseeds>>
    /\ UNCHANGED <<stage1Locals, paretoArgs>>

\* _evaluate_logic: evaluate_fitness raises in its test-level summary
EvaluateLogicRaises ==
    /\ pc \in {"initial", "spawned_programs", "post"}
    /\ EvaluateRaises(solutions, test_cases)
    /\ Raise("IndexError")
    /\ UNCHANGED <<solutions, test_cases, lastPass, test_population, selected>>
    /\ UNCHANGED engineVars
    /\ UNCHANGED <<stage1Locals, paretoArgs>>

\* _tournament_select samples 2 of code_population: ValueError below 2
TournamentRaises(g) == NumCross(g) >= 1 /\ Len(code_population) < 2

\* _random_select returns None on an empty population and _mutate_program
\* reads None.original_program
MutationRaises(g, born) == NumMut(g) >= 1 /\ Len(solutions) + born = 0

\* the head of a generation and its two spawn loops: every LLM call either
\* yields a child or nothing
SpawnPrograms ==
    /\ pc = "generation"
    /\ gen < max_generations
    /\ ~TournamentRaises(gen + 1)
    /\ \E crossed \in 0..NumCross(gen + 1) : \E mutated \in 0..NumMut(gen + 1) :
        /\ ~MutationRaises(gen + 1, crossed)
        /\ Fits(Len(solutions) + crossed + mutated, Len(test_cases))
        /\ solutions' = solutions \o NewPrograms(crossed + mutated)
        /\ pc' = IF crossed + mutated > 0 THEN "spawned_programs" ELSE "trim_programs"
    /\ gen' = gen + 1
    /\ UNCHANGED <<result, test_cases, lastPass, test_population, selected,
                   pop_cap_programs, pop_cap_tests, max_reseed_attempts,
                   max_generations, flag, code_population, stage1_passed, reseeds>>
    /\ UNCHANGED <<stage1Locals, paretoArgs>>

\* a spawn loop raises
SpawnProgramsRaises ==
    /\ pc = "generation"
    /\ gen < max_generations
    /\ \/ TournamentRaises(gen + 1) /\ Raise("ValueError")
       \/ ~TournamentRaises(gen + 1) /\ MutationRaises(gen + 1, 0) /\ Raise("AttributeError")
    /\ gen' = gen + 1
    /\ UNCHANGED <<solutions, test_cases, lastPass, test_population, selected,
                   pop_cap_programs, pop_cap_tests, max_reseed_attempts,
                   max_generations, flag, code_population, stage1_passed,
                   reseeds>>
    /\ UNCHANGED <<stage1Locals, paretoArgs>>

\* _trim_programs
TrimPrograms ==
    /\ pc = "trim_programs"
    /\ code_population' = SortCodePopulation(code_population)
    /\ solutions' = SelectSeq(solutions,
                              LAMBDA s : s.id \in KeepSolutions(SortCodePopulation(code_population),
                                                                pop_cap_programs))
    /\ pc' = "champion"
    /\ UNCHANGED <<result, test_cases, lastPass, test_population, selected,
                   pop_cap_programs, pop_cap_tests, max_reseed_attempts,
                   max_generations, gen, flag, stage1_passed, reseeds>>
    /\ UNCHANGED <<stage1Locals, paretoArgs>>

\* _best_program, _program_feedback and the num_new_tests calls of
\* _spawn_test_feedback: each yields a test or nothing
SpawnTests ==
    /\ pc = "champion"
    /\ ~BestProgramRaises
    /\ ~FeedbackRaises
    /\ \E born \in 0..num_new_tests :
        /\ Fits(Len(solutions), Len(test_cases) + born)
        /\ test_cases' = test_cases \o NewTests(born)
    /\ pc' = "post"
    /\ UNCHANGED <<result, solutions, lastPass, test_population, selected,
                   pop_cap_programs, pop_cap_tests, max_reseed_attempts,
                   max_generations, gen, flag, code_population, stage1_passed, reseeds>>
    /\ UNCHANGED <<stage1Locals, paretoArgs>>

\* _best_program raises ValueError, or _program_feedback raises IndexError
ChampionRaises ==
    /\ pc = "champion"
    /\ \/ BestProgramRaises /\ Raise("ValueError")
       \/ FeedbackRaises /\ Raise("IndexError")
    /\ UNCHANGED <<solutions, test_cases, lastPass, test_population, selected>>
    /\ UNCHANGED engineVars
    /\ UNCHANGED <<stage1Locals, paretoArgs>>

\* _trim_tests: pareto_selection in its default mode, without filter
TrimTests ==
    /\ pc = "trim_tests"
    /\ ~ParetoRaises(test_population)
    /\ \E sel \in ParetoSelection(test_population, pop_cap_tests, Metrics, "auto", "") :
        /\ test_cases' = [k \in DOMAIN KeepTests(test_cases, sel) |->
                             KeepTests(test_cases, sel)[k].id]
    /\ pc' = "generation"
    /\ UNCHANGED <<result, solutions, lastPass, test_population, selected>>
    /\ UNCHANGED engineVars
    /\ UNCHANGED <<stage1Locals, paretoArgs>>

\* pareto_selection raises IndexError inside _trim_tests
TrimTestsRaises ==
    /\ pc = "trim_tests"
    /\ ParetoRaises(test_population)
    /\ Raise("IndexError")
    /\ UNCHANGED <<solutions, test_cases, lastPass, test_population, selected>>
    /\ UNCHANGED engineVars
    /\ UNCHANGED <<stage1Locals, paretoArgs>>

\* the for loop over the generations is exhausted: run() returns
Finish ==
    /\ pc = "generation"
    /\ gen >= max_generations
    /\ pc' = "finished"
    /\ UNCHANGED <<result, solutions, test_cases, lastPass, test_population, selected>>
    /\ UNCHANGED engineVars
    /\ UNCHANGED <<stage1Locals, paretoArgs>>

EngineNext ==
    \/ AlignPasses
    \/ AlignFails
    \/ AlignRaises
    \/ Reseed
    \/ ReseedRaises
    \/ AlignExit
    \/ EvaluateLogic
    \/ EvaluateLogicRaises
    \/ SpawnPrograms
    \/ SpawnProgramsRaises
    \/ TrimPrograms
    \/ SpawnTests
    \/ ChampionRaises
    \/ TrimTests
    \/ TrimTestsRaises
    \/ Finish

SpecEngine == EngineInit /\ [][EngineNext]_vars

(***************************************************************************)
(* Claims about Stage 1 (checked under Spec)                               *)
(***************************************************************************)
Exhausted(key) == repair_attempts[key] >= max_repair_tries

\* C1 -- Repair bounding (attempt cap): with max_repair_tries = 2 no
\* (kind, index) is selected as the repair target once it has already been
\* repaired twice in this run, also when nobody is eligible; and the
\* populations keep every individual.
C1_AttemptCap ==
    /\ pc = "repair" => ~Exhausted(target)
    /\ Len(solutions) + Len(test_cases) = Cardinality(Keys)

\* C2 -- Repair bounding (cooldown): with cooldown_iters = 1 the individual
\* repaired at iteration t is never the repair target of iteration t + 1.
C2_Cooldown ==
    pc = "repair" =>
        ~(target \in DOMAIN last_fixed_iter /\ last_fixed_iter[target] = it - 1)

\* the pass rates the claim speaks of: the fraction of vocab_matrix cells
\* equal to 1, where 1 means the pair compiled and executed
VocabAligned ==
    /\ vocab_matrix # <<>>
    /\ vocab_matrix[1] # <<>>
    /\ AllGood(ProgRates(vocab_matrix))
    /\ AllGood(TestRates(vocab_matrix))

\* C5 -- Stage-1 success condition: run_vocab_alignment returns True only if
\* every program's and every test's vocabulary pass rate of the returning
\* iteration's evaluation pass is >= GOOD_THRESHOLD, and it returns at the
\* first iteration where that holds (it never goes on to repair when it holds).
C5_SuccessCondition ==
    /\ (pc = "done" /\ result = "True") => VocabAligned
    /\ pc = "repair" => ~VocabAligned

\* C6 -- Stage-1 termination: with programs and tests to evaluate, whatever
\* the oracles answer, a run makes at most max_iters evaluation passes and
\* ends by returning True or False (it is never stuck and never ends otherwise).
C6_Termination ==
    (solutions # <<>> /\ test_cases # <<>>) =>
        /\ eval_passes <= max_iters
        /\ pc = "done" => result \in {"True", "False"}
        /\ pc # "done" => ENABLED Next

\* C7 -- Matrix monotonicity: after every evaluation pass
\* logic_matrix[i][j] = 1 implies vocab_matrix[i][j] = 1.
C7_MatrixMonotone ==
    \A i \in DOMAIN logic_matrix : \A j \in DOMAIN logic_matrix[i] :
        logic_matrix[i][j] = 1 => vocab_matrix[i][j] = 1

\* an evaluation pass has produced a passing cell next to a cell that failed
\* to compile
C7_Witness ==
    /\ pc = "rates"
    /\ \E i \in DOMAIN logic_matrix : \E j \in DOMAIN logic_matrix[i] :
        logic_matrix[i][j] = 1
    /\ \E i \in DOMAIN vocab_matrix : \E j \in DOMAIN vocab_matrix[i] :
        vocab_matrix[i][j] = 0

(***************************************************************************)
(* Claims about the Pareto selector (checked under SpecPareto)             *)
(***************************************************************************)
\* C3 -- Pareto selection cap: for every population, those whose first front
\* is larger than the cap included, and every cap >= 0, the list
\* pareto_selection returns has at most cap individuals, in 'auto' and in
\* 'strict' mode.  (On the empty population the call raises IndexError and
\* returns nothing; the formula speaks of the calls that return.)
C3_SelectionCap ==
    (pc = "returned" /\ result # "IndexError") => Len(selected) <= select_size

NonDominated(p, pop) == ~\E k \in DOMAIN pop : Dominates(pop[k], p, Metrics)

FrontZero(pop) == {p \in Range(pop) : NonDominated(p, pop)}

\* C10 -- Front 0 inclusion: when cap >= |front 0| and no 'avg' filter is
\* asked for, every individual no other individual dominates is in the result.
C10_FrontZeroIncluded ==
    (/\ pc = "returned"
     /\ result # "IndexError"
     /\ filter_algo # "avg"
     /\ select_size >= Cardinality(FrontZero(test_population)))
        => FrontZero(test_population) \subseteq Range(selected)

\* a selection that kept the two members of front 0 and dropped a dominated one
C10_Witness ==
    /\ pc = "returned"
    /\ result # "IndexError"
    /\ filter_algo # "avg"
    /\ Cardinality(FrontZero(test_population)) = 2
    /\ select_size = 2
    /\ Len(test_population) = 3
    /\ Range(selected) = FrontZero(test_population)

\* the fronts build_pareto_front returns for the population
Fronts == BuildParetoFront(test_population, Metrics)

\* C27: build_pareto_front partitions the population into non-empty fronts;
\* no member of front k is dominated by a member of front k or of a later
\* front, and every member of a front after the first is dominated by a
\* member of the front before it.
C27_LayeredFronts ==
    LET fronts == Fronts
        members == [k \in DOMAIN fronts |-> Range(fronts[k])]
    IN /\ \A k \in DOMAIN fronts : fronts[k] # <<>>
       /\ \A n \in DOMAIN test_population :
              Cardinality({k \in DOMAIN fronts : test_population[n] \in members[k]}) = 1
       /\ SumSeq([k \in DOMAIN fronts |-> Len(fronts[k])]) = Len(test_population)
       /\ \A k \in DOMAIN fronts : \A l \in k..Len(fronts) :
              \A p \in members[k] : \A q \in members[l] : ~Dominates(q, p, Metrics)
       /\ \A k \in DOMAIN fronts : k >= 2 =>
              \A p \in members[k] : \E q \in members[k - 1] : Dominates(q, p, Metrics)

\* pareto_selection has run on a population of three fronts
C27_Witness ==
    /\ pc = "returned"
    /\ Len(test_population) = 3
    /\ Len(Fronts) = 3

(***************************************************************************)
(* Claims about CoCoEvoEngine.run (checked under SpecEngine)               *)
(***************************************************************************)
\* C4 -- Reseed exhaustion is fatal: when Stage 1 has failed on the initial
\* population and after every permitted reseed, run() raises to its caller
\* and runs no generation; past the alignment loop a run that never saw
\* Stage 1 succeed has raised, and generation 1 starts only after a success.
\* (Stated for runs that reseeded at least once with pop_cap_programs >= 1,
\* so that every reseed had programs to synthesise.)
C4_ReseedExhaustionFatal ==
    (reseeds >= 1 /\ pop_cap_programs >= 1) =>
        /\ (~stage1_passed /\ pc \notin {"align", "reseed"}) => (pc = "raised" /\ gen = 0)
        /\ gen >= 1 => stage1_passed

\* C8 -- Test population cap: when a generation's Pareto culling step has
\* completed, the test population holds at most pop_cap_tests tests,
\* whatever the confidence and discrimination of the tests.  (Stated for
\* pop_cap_tests >= 1.)
C8_TestPopulationCap ==
    (pc = "generation" /\ gen >= 1 /\ pop_cap_tests >= 1) =>
        Len(test_cases) <= pop_cap_tests

Removed(cp, sols) == {k \in DOMAIN cp : cp[k].solution \notin ProgramIds(sols)}

Retained(cp, sols) == {k \in DOMAIN cp : cp[k].solution \in ProgramIds(sols)}

\* C9 -- Program truncation keeps the fittest: after a generation's program
\* culling step the program population holds at most pop_cap_programs
\* programs, and every retained program has logic fitness >= that of every
\* program the step removed.
C9_TruncationKeepsFittest ==
    pc = "champion" =>
        /\ Len(solutions) <= pop_cap_programs
        /\ \A k \in Retained(code_population, solutions) :
             \A r \in Removed(code_population, solutions) :
                ~RateLess(code_population[k].logic_fitness, code_population[r].logic_fitness)

\* a culling step has cut the population down to the cap and removed a
\* program strictly less fit than the one it kept
C9_Witness ==
    /\ pc = "champion"
    /\ Len(solutions) = pop_cap_programs
    /\ \E k \in Retained(code_population, solutions) :
         \E r \in Removed(code_population, solutions) :
            RateLess(code_population[r].logic_fitness, code_population[k].logic_fitness)

(***************************************************************************)
(* Claims about Evaluator.evaluate and select_refactor_target              *)
(***************************************************************************)
InUnitInterval(f) == f.den > 0 /\ 0 <= f.num /\ f.num <= f.den

\* C11: after every evaluation pass the logic_fitness and the vocab_fitness
\* of every program lie in [0, 1]; with an empty test population the pass
\* completes (no division by zero) and every logic_fitness is exactly 0.
C11_FitnessBounds ==
    /\ [](pc = "rates" =>
            \A i \in DOMAIN solutions :
                /\ InUnitInterval(logic_fitness(i))
                /\ InUnitInterval(vocab_fitness(i))
                /\ test_cases = <<>> => logic_fitness(i).num = 0)
    /\ [][(pc = "eval" /\ it <= max_iters /\ test_cases = <<>>) => pc' = "rates"]_vars

\* a pass over two programs and no test has completed
C11_Witness ==
    /\ pc = "rates"
    /\ Len(solutions) = 2
    /\ test_cases = <<>>
    /\ eval_passes >= 1
    /\ logic_fitness(1).num = 0

\* what the call under study is a failure report of
Failure == single_test.program # "" /\ extract_goal(single_test.fact) # "" /\ ~single_test.passed

\* C12: _run_single_test returns exactly one of logic_pass, logic_error,
\* vocab_error, other_error; a failure whose reason is neither a
\* vocabulary-error pattern nor exactly "Goal failed" (a timeout, say) is
\* classified other_error, so that its vocab_matrix cell is 0.
C12_OutcomeClassification ==
    pc = "classified" =>
        /\ result \in Outcomes
        /\ (Failure /\ ~is_vocab_error(single_test.reason)
                    /\ single_test.reason # GoalFailedText)
               => (result = "other_error" /\ VocabCell(result) = 0)

\* the pass rate of an individual named by (kind, idx)
RateOf(key) == IF key[1] = "program" THEN prog_rates[key[2]] ELSE test_rates[key[2]]

\* C13: when at least one individual is eligible, select_refactor_target
\* returns an eligible (kind, index) whose pass rate is the minimum over all
\* eligible programs and tests together.
C13_WorstTarget ==
    (pc = "repair" /\ candidates # <<>>) =>
        /\ Eligible(target, it, repair_attempts, last_fixed_iter)
        /\ \A k \in DOMAIN prog_rates :
               Eligible(<<"program", k>>, it, repair_attempts, last_fixed_iter)
                   => ~RateLess(prog_rates[k], RateOf(target))
        /\ \A k \in DOMAIN test_rates :
               Eligible(<<"test", k>>, it, repair_attempts, last_fixed_iter)
                   => ~RateLess(test_rates[k], RateOf(target))

\* a test was selected although an eligible program, visited first, has a
\* strictly higher pass rate
C13_Witness ==
    /\ pc = "repair"
    /\ candidates # <<>>
    /\ target[1] = "test"
    /\ \E k \in DOMAIN prog_rates :
           /\ Eligible(<<"program", k>>, it, repair_attempts, last_fixed_iter)
           /\ RateLess(RateOf(target), prog_rates[k])

\* the fraction r equals n / d
RateIs(r, n, d) == r.den > 0 /\ r.num * d = n * r.den

\* C14: for a 0/1 matrix with n_prog >= 1 rows and n_test >= 1 columns,
\* compute_pass_rates returns prog_rates[i] = (sum of row i) / n_test and
\* test_rates[j] = (sum of column j) / n_prog.
C14_PassRates ==
    (pc \in {"rates", "repair"} /\ solutions # <<>> /\ test_cases # <<>>) =>
        LET n_prog == Len(solutions)
            n_test == Len(test_cases)
        IN /\ DOMAIN prog_rates = 1..n_prog
           /\ DOMAIN test_rates = 1..n_test
           /\ \A i \in 1..n_prog :
                  RateIs(prog_rates[i],
                         Cardinality({j \in 1..n_test : pass_matrix[i][j] = 1}), n_test)
           /\ \A j \in 1..n_test :
                  RateIs(test_rates[j],
                         Cardinality({i \in 1..n_prog : pass_matrix[i][j] = 1}), n_prog)

\* rates of a matrix with more rows than columns, one column half passed
C14_Witness ==
    /\ pc = "rates"
    /\ Len(solutions) = 2
    /\ Len(test_cases) = 1
    /\ pass_matrix = <<(<<1>>), (<<0>>)>>
    /\ test_rates[1] = [num |-> 1, den |-> 2]

\* C17: after a repair replaced the target's text with a non-empty answer of
\* the Synthesis Oracle, the next evaluation pass executes the replaced text
\* of that individual, its current text, not the text it had before.
C17_RepairedTextIsExecuted ==
    (pc = "rates" /\ target # NoTarget /\ updated # "")
        => canonical[target] = Original(target, target, updated)

\* the kind the n-th fallback of a run returns when no run preceded it
NthFallback(n) == IF n % 2 = 1 THEN "program" ELSE "test"

\* C21: the fallback alternation belongs to one Stage-1 run: the kind chosen
\* by the n-th fallback of a run is the same whatever fallbacks occurred in
\* earlier runs of the process, so it is the kind of the n-th fallback of a
\* first run.
C21_IndependentRuns ==
    \A n \in DOMAIN fallbacks.run : fallbacks.run[n] = NthFallback(n)

\* the population of a kind
PopulationOf(kind) == IF kind = "program" THEN solutions ELSE test_cases

\* C22: whenever no individual is eligible select_refactor_target still
\* returns a target, its kind is the other one than the kind of the previous
\* fallback, and its index is a valid index of the population of that kind.
C22_FallbackProgress ==
    [][(MustRepair /\ candidates = <<>>) =>
          /\ pc' = "repair"
          /\ target'[1] \in {"program", "test"}
          /\ target'[1] # fallbacks.last
          /\ target'[2] \in DOMAIN PopulationOf(target'[1])]_vars

\* a fallback has returned a test after an earlier fallback
C22_Witness ==
    /\ pc = "repair"
    /\ candidates = <<>>
    /\ fallbacks.last = "test"
    /\ target[1] = "test"

\* C23: if the program population or the test population is empty when
\* run_vocab_alignment is called, the evaluation pass completes without
\* raising, no repair is attempted and run_vocab_alignment returns False.
C23_EmptyPopulation ==
    (solutions = <<>> \/ test_cases = <<>>) =>
        /\ pc # "repair"
        /\ \A k \in DOMAIN repair_attempts : repair_attempts[k] = 0
        /\ pc = "done" => result = "False"

\* the oracle answered with a failure
Failing == Outcomes \ {"logic_pass"}

\* C24: every evaluation pass calls the Execution Oracle exactly once for each
\* (program, test) pair of the current populations and produces a logic and a
\* vocab matrix with one row per program and one column per test; a failing
\* call is a 0 cell of the logic matrix and does not end the pass.
C24_CompletePass ==
    pc = "rates" =>
        /\ \A i \in DOMAIN solutions : \A j \in DOMAIN test_cases :
               Cardinality({k \in DOMAIN evaluated.calls : evaluated.calls[k] = <<i, j>>}) = 1
        /\ Len(evaluated.calls) = Len(solutions) * Len(test_cases)
        /\ DOMAIN logic_matrix = DOMAIN solutions
        /\ DOMAIN vocab_matrix = DOMAIN solutions
        /\ \A i \in DOMAIN solutions :
               /\ DOMAIN logic_matrix[i] = DOMAIN test_cases
               /\ DOMAIN vocab_matrix[i] = DOMAIN test_cases
        /\ \A res \in Failing : LogicCell(res) = 0

\* a pass over two tests in which the first call failed and the second passed
C24_Witness ==
    /\ pc = "rates"
    /\ Len(solutions) = 1 /\ Len(test_cases) = 2
    /\ logic_matrix = <<<<0, 1>>>>
    /\ evaluated.calls = <<<<1, 1>>, <<1, 2>>>>

\* the number of programs whose cell of column j is 1, over the number of
\* programs floored at 1
PassingFraction(matrix, j) ==
    [num |-> Cardinality({i \in DOMAIN matrix : matrix[i][j] = 1}),
     den |-> IF Len(solutions) >= 1 THEN Len(solutions) ELSE 1]

\* C25: every evaluation pass completes, and after it each test's logic_fitness
\* and vocab_fitness are the fractions of the programs whose logic_matrix and
\* vocab_matrix cell for that test is 1, the denominator being the number of
\* programs floored at 1.
C25_TestFitness ==
    /\ [](pc = "rates" =>
            \A j \in DOMAIN test_cases :
                /\ test_logic_fitness(j) = PassingFraction(logic_matrix, j)
                /\ test_vocab_fitness(j) = PassingFraction(vocab_matrix, j))
    /\ [][(pc = "eval" /\ it <= max_iters) => pc' = "rates"]_vars

\* C26: when the Synthesis Oracle returns nothing for a repair, the text of
\* the target and of every other individual is unchanged, while the attempt
\* count and the last-repaired iteration of the target are recorded; when it
\* returns text, the text of the target becomes the stripped response.
C26_RepairWithoutAnswer ==
    [][(pc = "repair" /\ pc' = "eval") =>
          /\ repair_attempts'[target] = repair_attempts[target] + 1
          /\ last_fixed_iter'[target] = it
          /\ \A k \in Keys \ {target} : Original(k, target', updated') = "seed"
          /\ IF updated' = ""
             THEN Original(target, target', updated') = "seed"
             ELSE Original(target, target', updated') = "repaired"]_vars

\* a repair whose oracle returned nothing has been recorded
C26_Witness ==
    /\ pc = "eval"
    /\ target # NoTarget
    /\ updated = ""
    /\ repair_attempts[target] = 1
    /\ last_fixed_iter[target] = it - 1

\* the individuals whose text a step of run_vocab_alignment changed
Changed == {k \in Keys : Original(k, target', updated') # "seed"}

\* C28: a run of run_vocab_alignment never adds, removes or reorders programs
\* or tests and never changes an id; in each iteration that repairs, the text
\* of at most one individual changes, and it is the iteration's target.
C28_Stage1Frame ==
    [][pc # "done" =>
          /\ solutions' = solutions
          /\ test_cases' = test_cases
          /\ (pc = "repair" /\ pc' = "eval") =>
                 (target' = target /\ Changed \subseteq {target})]_vars

\* a repair has changed the text of its target and left another individual's
C28_Witness ==
    /\ pc = "eval"
    /\ target # NoTarget
    /\ Original(target, target, updated) = "repaired"
    /\ \E k \in Keys \ {target} : Original(k, target, updated) = "seed"

(***************************************************************************)
(* Claims about CoCoEvoEngine.run                                          *)
(***************************************************************************)
\* C15: run() terminates; the alignment loop performs at most
\* max_reseed_attempts reseeds and, once the initial population is aligned,
\* the generational loop performs exactly max_generations generations.
C15_DriverTermination ==
    /\ reseeds + max_reseed_attempts <= MaxReseeds
    /\ pc = "finished" => gen = max_generations
    /\ (flag /\ gen >= 1 /\ solutions # <<>> /\ test_cases # <<>>) => pc # "raised"

\* column j of a matrix is passed by none or by all of its rows
NoneOrAll(matrix, j) ==
    \/ \A i \in DOMAIN matrix : matrix[i][j] = 0
    \/ \A i \in DOMAIN matrix : matrix[i][j] = 1

\* C16: for every test whose logic_matrix column is passed by none or by all
\* of the programs, the discrimination is exactly 0, both as the evaluator
\* computes it (over evaluator.logic_matrix) and as the driver computes it
\* (over its own logic_matrix, for test_population).
C16_DiscriminationBoundary ==
    /\ \A j \in DOMAIN logic_discrimination :
           NoneOrAll(evaluated.logic_matrix, j) => logic_discrimination[j] = 0
    /\ \A j \in DOMAIN test_population :
           NoneOrAll(logic_matrix, j) => test_population[j].disc = 0

\* after a pass over two programs, one test passed by both: both computations
\* were made and give 0
C16_Witness ==
    /\ pc = "trim_programs"
    /\ Len(logic_matrix) = 2
    /\ Len(test_population) = 1
    /\ logic_matrix[1][1] = 1 /\ logic_matrix[2][1] = 1
    /\ test_population[1].disc = 0
    /\ Len(evaluated.logic_matrix) = 2
    /\ logic_discrimination[1] = 0

\* the champion: _best_program()[1]
Champion == BestEntry(code_population).solution

\* what the latest evaluation pass found for the champion on test t
ChampionPasses(t) ==
    LET i == CHOOSE k \in DOMAIN evaluated.solutions : evaluated.solutions[k].id = Champion
        j == CHOOSE k \in DOMAIN evaluated.test_cases : evaluated.test_cases[k] = t
    IN evaluated.logic_matrix[i][j] = 1

\* every current test was run in the latest evaluation pass
CurrentTestsEvaluated ==
    \A j \in DOMAIN test_cases : \E k \in DOMAIN evaluated.test_cases :
        evaluated.test_cases[k] = test_cases[j]

\* C18: in every generation the failing and the passing examples sent with the
\* new-test requests are exactly the current tests the champion fails and
\* passes according to the latest evaluation pass.
C18_ChampionFeedback ==
    (pc = "champion" /\ ~BestProgramRaises /\ ~FeedbackRaises) =>
        /\ CurrentTestsEvaluated
        /\ Examples.failing = SelectSeq(test_cases, LAMBDA t : ~ChampionPasses(t))
        /\ Examples.passing = SelectSeq(test_cases, LAMBDA t : ChampionPasses(t))

\* the driver reads logic_matrix: _program_feedback, once the champion is found
DriverReadsMatrix == pc = "champion" /\ ~BestProgramRaises

\* C19: wherever the driver reads logic_matrix, the matrix has exactly one row
\* per program and one column per test of the current populations, in the
\* same order: its rows are those the latest evaluation pass computed for the
\* current programs, its columns those of the current tests.
C19_MatrixAligned ==
    DriverReadsMatrix =>
        /\ Len(logic_matrix) = Len(solutions)
        /\ \A i \in DOMAIN logic_matrix : Len(logic_matrix[i]) = Len(test_cases)
        /\ evaluated.test_cases = test_cases
        /\ ValidSolutions(evaluated.solutions) = solutions

\* C20: when an emergency reseed completes, both the program population and
\* the test population have been resynthesized through the Synthesis Oracle
\* in place of the discarded ones, so that both are non-empty (the caps being
\* at least 1 and the oracle having answered).
C20_ReseedRebuildsBoth ==
    [][(pc = "reseed" /\ pc' = "align" /\ pop_cap_programs >= 1 /\ pop_cap_tests >= 1)
           => (solutions' # <<>> /\ test_cases' # <<>>)]_vars

\* a Stage-1 run starts in this state: the _ensure_vocab_alignment() of the
\* alignment loop, or the one that closes _reseed_populations
Stage1Starts == AlignLoop \/ pc = "reseed"

\* the reseed attempts run() has consumed so far (the decrement precedes the
\* reseed it pays for)
Consumed == reseeds + (IF pc = "reseed" THEN 1 ELSE 0)

\* C29: every Stage-1 run the engine starts, the initial one and the one of
\* each reseed, gets the iteration budget the first run got, however many
\* reseed attempts have been consumed.
C29_BudgetIndependentOfReseeds ==
    Stage1Starts => max_reseed_attempts = max_reseed_attempts + Consumed

\* the logic_fitness code_population records for the program id
FitnessIn(cp, id) == cp[CHOOSE k \in DOMAIN cp : cp[k].solution = id].logic_fitness

\* the programs of sols whose logic_fitness is the maximum of sols
Maximal(cp, sols) ==
    {a \in ProgramIds(sols) :
        \A b \in ProgramIds(sols) : ~RateLess(FitnessIn(cp, a), FitnessIn(cp, b))}

\* C30 (as stated): with pop_cap_programs >= 1, program culling removes no
\* program whose logic_fitness is the maximum of the population.
C30_NoMaximalRemoved ==
    [][(pc = "trim_programs" /\ pop_cap_programs >= 1)
           => Maximal(code_population, solutions) \subseteq ProgramIds(solutions')]_vars

\* C30: with pop_cap_programs >= 1, program culling keeps a program whose
\* logic_fitness is the maximum of the population, so the maximum
\* logic_fitness present after the culling step equals the maximum present
\* before it, in every generation.
C30_Elitism ==
    [][(pc = "trim_programs" /\ pop_cap_programs >= 1 /\ solutions # <<>>)
           => /\ solutions' # <<>>
              /\ Maximal(code_population', solutions') =
                     Maximal(code_population, solutions) \cap ProgramIds(solutions')]_vars

\* a culling step under a cap of at least 1 has removed a program while
\* keeping one of maximal logic_fitness, fitter than some program it removed
C30_Witness ==
    /\ pc = "champion"
    /\ pop_cap_programs >= 1
    /\ gen >= 1
    /\ Removed(code_population, solutions) # {}
    /\ \E k \in Retained(code_population, solutions) :
         /\ \A n \in DOMAIN code_population :
              ~RateLess(code_population[k].logic_fitness, code_population[n].logic_fitness)
         /\ \E r \in Removed(code_population, solutions) :
              RateLess(code_population[r].logic_fitness, code_population[k].logic_fitness)
====
